---- MODULE Spec2Model ----
(***************************************************************************)
(* The lvlUSD ecosystem dashboard: the console report of main.py with the  *)
(* clients it calls (on-chain reads through web3, the Zapper portfolio     *)
(* client, the Morpho lending-market client), the stand-alone Euler vault  *)
(* script and the Morpho market script.  One behaviour is one run of one   *)
(* script, from the first import to the end of the process.  The scaling   *)
(* of raw amounts, the portfolio client's aggregation, the vault           *)
(* allocation summary and the dashboard's capture of printed output have   *)
(* specifications of their own over the same variables.                    *)
(***************************************************************************)
EXTENDS Integers, Sequences, FiniteSets, TLC

\* Largest raw integer an on-chain read returns in the model.
MaxRaw == 1

\* Number of distinct provider payloads (snapshots of the provider's data).
MaxSnap == 2

\* Amounts that are scaled: up to MaxWhole whole tokens and MaxUnits of the
\* token's smallest unit.
MaxWhole == 1

MaxUnits == 29

VARIABLES
    program,    \* the script that is run: "main", "euler" or "morpho"; the
                \* part of the code a specification of its own is about
    pc,         \* position of the script
    idx,        \* index of the market / pool the current loop is at
    imported,   \* module globals computed while importing (import-time reads)
    results,    \* main(): what supply_data, collateral_data, ... were assigned
    fetched,    \* sections whose get_* function has been entered
    populated,  \* sections for which figures were printed
    marked,     \* sections for which an error or not-found line was printed
    out,        \* lines printed since the current section began
    positions,  \* get_collateral_composition: defi_positions, while it runs
    lastOp,     \* the fetching operation that ended last, with its request count
    fetchLog,   \* the provider requests of the last step, each with its outcome
    reads,      \* the totalSupply() reads of the last step, each with its answer
    shown,      \* the figures printed by the last step
    claimable,  \* get_collateral_composition: claimable_positions, once filtered
    sys_stdout, \* the stream sys.stdout is bound to
    buffers,    \* dashboard: the text written to each stream, line by line
    threads     \* dashboard: the script threads, one per cycle that is running

\* The process-wide standard output and what the dashboard's threads do to it.
stdoutVars == <<sys_stdout, buffers, threads>>

vars == <<program, pc, idx, imported, results, fetched, populated, marked,
          out, positions, lastOp, fetchLog, reads, shown, claimable,
          stdoutVars>>

----------------------------------------------------------------------------
(* The environment: what a provider can answer to one request.            *)

RawVals == 0..MaxRaw

\* A contract call: .call() returns the uint256 or raises (a refused
\* connection, an RPC error, the provider's own request timeout).
RpcAnswers ==
    {[ok |-> TRUE, value |-> v] : v \in RawVals} \cup {[ok |-> FALSE, value |-> 0]}

Snapshots == 1..MaxSnap

\* The "data" member of a response body: null (NoData), present with a null
\* entity (NullEntity: marketByUniqueKey or portfolioV2 is null), or one of
\* the snapshots of the provider's data.
NoData == 0

NullEntity == MaxSnap + 1

Payloads == {NoData, NullEntity} \cup Snapshots

\* One HTTP exchange.  net: the provider answered, the connection failed, or
\* the provider never answers.  retryOk: an immediate second attempt would
\* be answered with 200 and data (a transient transport failure).
Responses ==
    {[net |-> "answer", status |-> s, errors |-> e, data |-> d, retryOk |-> FALSE] :
        s \in {200, 201, 500}, e \in BOOLEAN, d \in Payloads}
    \cup {[net |-> "connerr", status |-> 0, errors |-> FALSE, data |-> NoData,
           retryOk |-> r] : r \in BOOLEAN}
    \cup {[net |-> "silent", status |-> 0, errors |-> FALSE, data |-> NoData,
           retryOk |-> FALSE]}

\* A response that carries a provider-side failure.
IsProviderError(resp) ==
    \/ resp.net # "answer"
    \/ resp.status # 200
    \/ resp.errors

----------------------------------------------------------------------------
(* The clients.  A call ends in one of three ways: it returns a value, it  *)
(* raises, or it never ends ("hang").                                      *)

NoTimeout == 0

\* requests: a request without timeout= waits for as long as the provider
\* stays silent; with timeout= it raises requests.Timeout.
Transport(resp, timeout) ==
    CASE resp.net = "answer" -> "answer"
      [] resp.net = "connerr" -> "raise"
      [] resp.net = "silent" -> IF timeout = NoTimeout THEN "hang" ELSE "raise"

\* requests.Response.raise_for_status: HTTPError for 4xx and 5xx.
RaiseForStatus(status) == status >= 400 /\ status < 600

Fetched(kind, data) == [kind |-> kind, data |-> data]

\* ZapperAPI.fetch_defi_positions: session.post(..., timeout=30).
ZapperTimeout == 30

fetch_defi_positions(resp) ==
    LET t == Transport(resp, ZapperTimeout) IN
    IF t # "answer" THEN Fetched(t, NoData)
    ELSE IF resp.status # 200 THEN Fetched("raise", NoData)
    ELSE IF resp.errors THEN Fetched("raise", NoData)
    ELSE Fetched("return", resp.data)

\* MorphoAPIClient._execute_query: requests.post(url, json=, headers=).
_execute_query(resp) ==
    LET t == Transport(resp, NoTimeout) IN
    IF t # "answer" THEN Fetched(t, NoData)
    ELSE IF RaiseForStatus(resp.status) THEN Fetched("raise", NoData)
    ELSE IF resp.errors THEN Fetched("raise", NoData)
    ELSE Fetched("return", resp.data)

\* What a fetching operation did: how it ended, what it returned, how many
\* requests it sent and whether a provider query in it failed.
Op(name, kind, value, requests, providerError) ==
    [op |-> name, kind |-> kind, value |-> value, requests |-> requests,
     providerError |-> providerError]

NoOp == Op("none", "return", NoData, 0, FALSE)

LogEntry(client, resp, f) ==
    [client |-> client, resp |-> resp, kind |-> f.kind, data |-> f.data]

\* test_api_connection: requests.post(..., timeout=10) inside try/except;
\* True only for a 200 answer without an errors member.
TestTimeout == 10

\* test_api_connection as it must not be: True whatever the provider did.
test_api_connection_unchecked(resp) == TRUE

test_api_connection(resp) ==
    LET t == Transport(resp, TestTimeout) IN
    IF t # "answer" THEN FALSE
    ELSE IF resp.status = 200 THEN ~resp.errors
    ELSE FALSE

\* ZapperAPI.get_defi_positions: one fetch, then the walk over
\* portfolioV2.appBalances.byApp.edges (a TypeError when data is null).
get_defi_positions(resp) ==
    LET f == fetch_defi_positions(resp) IN
    IF f.kind # "return" THEN Op("get_defi_positions", f.kind, NoData, 1, TRUE)
    ELSE IF f.data \notin Snapshots THEN Op("get_defi_positions", "raise", NoData, 1, FALSE)
    ELSE Op("get_defi_positions", "return", f.data, 1, FALSE)

\* ZapperAPI.get_defi_summary: its own fetch (total_value_usd comes from it),
\* then get_defi_positions, which fetches again.
get_defi_summary(r1, r2) ==
    LET f == fetch_defi_positions(r1)
        p == get_defi_positions(r2)
    IN  IF f.kind # "return" THEN Op("get_defi_summary", f.kind, NoData, 1, TRUE)
        ELSE IF p.kind # "return"
             THEN Op("get_defi_summary", p.kind, NoData, 1 + p.requests, p.providerError)
        ELSE IF f.data \notin Snapshots
             THEN Op("get_defi_summary", "raise", NoData, 1 + p.requests, FALSE)
        ELSE Op("get_defi_summary", "return",
                [total_value_usd |-> f.data, positions |-> p.value],
                1 + p.requests, FALSE)

\* MorphoAPIClient.get_market_by_id: return self._execute_query(query, variables).
get_market_by_id(resp) ==
    LET f == _execute_query(resp) IN
    Op("get_market_by_id", f.kind, f.data, 1, f.kind # "return")

----------------------------------------------------------------------------
(* Python numbers.  An int is unbounded; a float is an IEEE-754 binary64,  *)
(* that is m * 2^e with m below 2^53.  Naturals beyond the range of the    *)
(* model's integers are sequences of bits, lowest bit first, without high   *)
(* zero bits (0 is the empty sequence).                                     *)

\* Bits of a float's significand (sys.float_info.mant_dig).
MantDig == 53

RECURSIVE BitsOf(_)
BitsOf(n) == IF n = 0 THEN <<>> ELSE <<n % 2>> \o BitsOf(n \div 2)

\* a without its high zero bits
Trim(a) ==
    LET top == CHOOSE i \in 0..Len(a) :
                  /\ i = 0 \/ a[i] = 1
                  /\ \A j \in (i + 1)..Len(a) : a[j] = 0
    IN  SubSeq(a, 1, top)

Bit(a, i) == IF i <= Len(a) THEN a[i] ELSE 0

\* a < b
Less(a, b) ==
    IF Len(a) # Len(b) THEN Len(a) < Len(b)
    ELSE \E i \in 1..Len(a) :
            /\ a[i] < b[i]
            /\ \A j \in (i + 1)..Len(a) : a[j] = b[j]

\* The bits of two adjacent ranges, and the carry or borrow out of the upper.
Joined(low, high) == [s |-> low.s \o high.s, c |-> high.c]

\* The bits lo..hi of a + b + carry and the carry out of them; the range is
\* halved at every level so that the evaluation stays shallow.
RECURSIVE AddRange(_, _, _, _, _)
RECURSIVE AddUpper(_, _, _, _, _)
AddRange(a, b, lo, hi, carry) ==
    IF lo = hi
    THEN LET t == Bit(a, lo) + Bit(b, lo) + carry
         IN  [s |-> <<t % 2>>, c |-> t \div 2]
    ELSE AddUpper(a, b, (lo + hi) \div 2 + 1, hi,
                  AddRange(a, b, lo, (lo + hi) \div 2, carry))

\* low, the bits below mid, followed by the bits mid..hi.
AddUpper(a, b, mid, hi, low) == Joined(low, AddRange(a, b, mid, hi, low.c))

Add(a, b) ==
    LET n == IF Len(a) > Len(b) THEN Len(a) ELSE Len(b) IN
    IF n = 0 THEN <<>>
    ELSE LET x == AddRange(a, b, 1, n, 0)
         IN  IF x.c = 1 THEN x.s \o <<1>> ELSE x.s

\* The bits lo..hi of a - b - borrow and the borrow out of them.
RECURSIVE SubRange(_, _, _, _, _)
RECURSIVE SubUpper(_, _, _, _, _)
SubRange(a, b, lo, hi, borrow) ==
    IF lo = hi
    THEN LET t == Bit(a, lo) - Bit(b, lo) - borrow
         IN  [s |-> <<t % 2>>, c |-> IF t < 0 THEN 1 ELSE 0]
    ELSE SubUpper(a, b, (lo + hi) \div 2 + 1, hi,
                  SubRange(a, b, lo, (lo + hi) \div 2, borrow))

SubUpper(a, b, mid, hi, low) == Joined(low, SubRange(a, b, mid, hi, low.c))

\* a - b, for b <= a
Sub(a, b) == IF a = <<>> THEN a ELSE Trim(SubRange(a, b, 1, Len(a), 0).s)

\* a * 2^k
Shl(a, k) == IF a = <<>> THEN a ELSE [i \in 1..k |-> 0] \o a

\* a times the bits lo..hi of b
RECURSIVE MulRange(_, _, _, _)
MulRange(a, b, lo, hi) ==
    IF lo = hi THEN IF b[lo] = 1 THEN Shl(a, lo - 1) ELSE <<>>
    ELSE LET mid == (lo + hi) \div 2
         IN  Add(MulRange(a, b, lo, mid), MulRange(a, b, mid + 1, hi))

Mul(a, b) == IF b = <<>> THEN <<>> ELSE MulRange(a, b, 1, Len(b))

\* 10**d
RECURSIVE Pow10(_)
Pow10(d) ==
    IF d = 0 THEN <<1>>
    ELSE IF d % 2 = 0 THEN LET h == Pow10(d \div 2) IN Mul(h, h)
    ELSE Mul(Pow10(d - 1), BitsOf(10))

\* One step of the long division: r1 is the remainder so far followed by
\* the next bit of the dividend.
DivStep(r1, b) ==
    IF Less(r1, b) THEN [q |-> <<0>>, r |-> r1] ELSE [q |-> <<1>>, r |-> Sub(r1, b)]

DivJoined(high, low) == [q |-> high.q \o low.q, r |-> low.r]

\* Long division of the bits hi, ..., lo of a by b, with r the remainder of
\* the bits above them; the quotient's bits come highest first.
RECURSIVE DivRange(_, _, _, _, _)
RECURSIVE DivLower(_, _, _, _, _)
DivRange(a, b, hi, lo, r) ==
    IF hi = lo THEN DivStep(Trim(<<a[hi]>> \o r), b)
    ELSE DivLower(a, b, (lo + hi) \div 2, lo,
                  DivRange(a, b, hi, (lo + hi) \div 2 + 1, r))

\* high, the quotient of the bits above mid, followed by that of mid..lo.
DivLower(a, b, mid, lo, high) == DivJoined(high, DivRange(a, b, mid, lo, high.r))

Reverse(a) == [i \in 1..Len(a) |-> a[Len(a) + 1 - i]]

DivResult(x, b) == [q |-> Trim(Reverse(x.q)), r |-> x.r, d |-> b]

\* [q |-> a div b, r |-> a mod b, d |-> b]
DivMod(a, b) ==
    IF a = <<>> THEN [q |-> <<>>, r |-> <<>>, d |-> b]
    ELSE DivResult(DivRange(a, b, Len(a), 1, <<>>), b)

\* a * 2^s div b, for any integer s
Quot(a, b, s) == IF s >= 0 THEN DivMod(Shl(a, s), b) ELSE DivMod(a, Shl(b, -s))

\* m * 2^(-s), for a significand m of MantDig bits or of one bit more (a
\* power of two, after rounding up).
Normal(m, s) ==
    IF Len(m) > MantDig THEN [m |-> SubSeq(m, 2, Len(m)), e |-> 1 - s]
    ELSE [m |-> m, e |-> -s]

\* The quotient x of MantDig bits rounded by its remainder: twice is 2 * x.r.
RoundedQuot(x, twice, s) ==
    IF Less(x.d, twice) \/ (twice = x.d /\ Bit(x.q, 1) = 1)
    THEN Normal(Add(x.q, <<1>>), s)
    ELSE Normal(x.q, s)

NearestQuot(x, s) == RoundedQuot(x, Shl(x.r, 1), s)

\* q0 is the quotient scaled by 2^s0; it has MantDig bits or one more, and
\* then the quotient scaled by 2^(s0 - 1) has MantDig.
FirstQuot(num, den, s0, q0) ==
    IF Len(q0.q) > MantDig THEN NearestQuot(Quot(num, den, s0 - 1), s0 - 1)
    ELSE NearestQuot(q0, s0)

\* The float nearest to num / den, ties to the even significand.
NearestFloat(num, den) ==
    IF num = <<>> THEN [m |-> <<>>, e |-> 0]
    ELSE FirstQuot(num, den, MantDig + Len(den) - Len(num),
                   Quot(num, den, MantDig + Len(den) - Len(num)))

\* raw / 10**d for an int raw: int / int is the correctly rounded quotient.
TrueDiv(raw, d) == NearestFloat(raw, Pow10(d))

\* float * int: the int is converted to a float, the product is rounded.
FloatTimesPow10(x, d) ==
    LET y == NearestFloat(Pow10(d), <<1>>)
        p == NearestFloat(Mul(x.m, y.m), <<1>>)
    IN  IF p.m = <<>> THEN p ELSE [m |-> p.m, e |-> p.e + x.e + y.e]

\* float == int: the comparison is exact.
FloatEqualsInt(x, n) ==
    IF x.e >= 0 THEN Shl(x.m, x.e) = n ELSE x.m = Shl(n, -x.e)

\* The float 0.0.
FloatZero == [m |-> <<>>, e |-> 0]

\* The float nearest to the natural a, ties to the even significand; the
\* significand of a float that is not 0.0 has MantDig bits.
RoundInt(a) ==
    IF a = <<>> THEN FloatZero
    ELSE IF Len(a) <= MantDig
         THEN [m |-> Shl(a, MantDig - Len(a)), e |-> Len(a) - MantDig]
    ELSE LET k == Len(a) - MantDig
             q == SubSeq(a, k + 1, Len(a))
             up == /\ a[k] = 1
                   /\ \/ \E i \in 1..(k - 1) : a[i] = 1
                      \/ q[1] = 1
             m == IF up THEN Add(q, <<1>>) ELSE q
         IN  IF Len(m) > MantDig
             THEN [m |-> SubSeq(m, 2, Len(m)), e |-> k + 1]
             ELSE [m |-> m, e |-> k]

\* x + y of two floats that are not negative: the exact sum, rounded.
FloatAdd(x, y) ==
    IF x.m = <<>> THEN y
    ELSE IF y.m = <<>> THEN x
    ELSE LET e == IF x.e < y.e THEN x.e ELSE y.e
             r == RoundInt(Add(Shl(x.m, x.e - e), Shl(y.m, y.e - e)))
         IN  [m |-> r.m, e |-> r.e + e]

\* x < y for two floats that are not negative.
FloatLess(x, y) ==
    IF y.m = <<>> THEN FALSE
    ELSE IF x.m = <<>> THEN TRUE
    ELSE IF x.e # y.e THEN x.e < y.e
    ELSE Less(x.m, y.m)

\* The float a JSON number n / 10**k is parsed to.
FromDecimal(n, k) == NearestFloat(BitsOf(n), Pow10(k))

\* x / y of two floats that are not negative, y not 0.0.
FloatDiv(x, y) ==
    IF x.m = <<>> THEN FloatZero
    ELSE LET r == NearestFloat(x.m, y.m) IN [m |-> r.m, e |-> r.e + x.e - y.e]

\* x * y of two floats that are not negative: the exact product, rounded.
FloatMul(x, y) ==
    IF x.m = <<>> \/ y.m = <<>> THEN FloatZero
    ELSE LET r == RoundInt(Mul(x.m, y.m)) IN [m |-> r.m, e |-> r.e + x.e + y.e]

\* The float 100.0.
Hundred == RoundInt(BitsOf(100))

----------------------------------------------------------------------------
(* The on-chain readers.                                                   *)

\* The float raw / 10**decimals, named by its operands; its bits are
\* TrueDiv(BitsOf(raw), decimals).
Scaled(raw, decimals) == [raw |-> raw, decimals |-> decimals]

\* current_supply - current_borrow of two amounts of the same exponent.
Minus(x, y) == [raw |-> x.raw - y.raw, decimals |-> x.decimals]

\* (slvlUSD_supply / lvlUSD_supply) * 100 as the fraction num / den.
Percentage(slvl, lvl) == [num |-> slvl * 100, den |-> lvl]

\* The totalSupply() calls made by two reads in a row: the second one is
\* made only when the first returned.
TotalSupplyReads(a1, a2) == IF a1.ok THEN <<a1, a2>> ELSE <<a1>>

\* get_lvlUSD_slvlUSD_supply, module level: two totalSupply() reads and the
\* percentage; a failed read or a zero lvlUSD supply raises.
SupplyModule(a1, a2) ==
    IF ~a1.ok THEN Op("import_supply", "raise", NoData, 1, TRUE)
    ELSE IF ~a2.ok THEN Op("import_supply", "raise", NoData, 2, TRUE)
    ELSE IF a1.value = 0 THEN Op("import_supply", "raise", NoData, 2, FALSE)
    ELSE Op("import_supply", "return",
            [lvlUSD_total_supply |-> Scaled(a1.value, 18),
             slvlUSD_total_supply |-> Scaled(a2.value, 18),
             percentage |-> Percentage(a2.value, a1.value)], 2, FALSE)

\* get_aUSDC_info, module level: supply, borrow and their difference.
AUSDCModule(a1, a2) ==
    IF ~a1.ok THEN Op("import_aUSDC", "raise", NoData, 1, TRUE)
    ELSE IF ~a2.ok THEN Op("import_aUSDC", "raise", NoData, 2, TRUE)
    ELSE Op("import_aUSDC", "return",
            [total_supply |-> Scaled(a1.value, 6),
             total_borrow |-> Scaled(a2.value, 6),
             available_liquidity |->
                Minus(Scaled(a1.value, 6), Scaled(a2.value, 6))], 2, FALSE)

\* get_supply_info as it must not be: the figures taken from the globals the
\* import computed instead of the reads just made.
get_supply_info_imported(a1, a2) ==
    IF ~a1.ok THEN Op("get_supply_info", "raise", NoData, 1, TRUE)
    ELSE IF ~a2.ok THEN Op("get_supply_info", "raise", NoData, 2, TRUE)
    ELSE IF a1.value = 0 THEN Op("get_supply_info", "raise", NoData, 2, FALSE)
    ELSE Op("get_supply_info", "return",
            [lvlUSD_supply |-> imported.supply.lvlUSD_total_supply,
             slvlUSD_supply |-> imported.supply.slvlUSD_total_supply,
             percentage |-> imported.supply.percentage], 2, FALSE)

\* main.get_supply_info: the same reads again, no try around them.
get_supply_info(a1, a2) ==
    IF ~a1.ok THEN Op("get_supply_info", "raise", NoData, 1, TRUE)
    ELSE IF ~a2.ok THEN Op("get_supply_info", "raise", NoData, 2, TRUE)
    ELSE IF a1.value = 0 THEN Op("get_supply_info", "raise", NoData, 2, FALSE)
    ELSE Op("get_supply_info", "return",
            [lvlUSD_supply |-> Scaled(a1.value, 18),
             slvlUSD_supply |-> Scaled(a2.value, 18),
             percentage |-> Percentage(a2.value, a1.value)], 2, FALSE)

\* get_aUSDC_situation as it must not be: the liquidity taken as the supply
\* alone, and still given when the borrow read failed.
aUSDC_situation_supply_only(a1, a2) ==
    IF ~a1.ok THEN Op("get_aUSDC_situation", "raise", NoData, 1, TRUE)
    ELSE Op("get_aUSDC_situation", "return",
            [total_supply |-> Scaled(a1.value, 6),
             total_borrow |-> Scaled(a2.value, 6),
             available_liquidity |-> Scaled(a1.value, 6)], 2, ~a2.ok)

\* main.get_aUSDC_situation.
get_aUSDC_situation(a1, a2) ==
    IF ~a1.ok THEN Op("get_aUSDC_situation", "raise", NoData, 1, TRUE)
    ELSE IF ~a2.ok THEN Op("get_aUSDC_situation", "raise", NoData, 2, TRUE)
    ELSE Op("get_aUSDC_situation", "return",
            [total_supply |-> Scaled(a1.value, 6),
             total_borrow |-> Scaled(a2.value, 6),
             available_liquidity |->
                Minus(Scaled(a1.value, 6), Scaled(a2.value, 6))], 2, FALSE)

\* get_token_balances: get_balances() in one read, or balances(0) and
\* balances(1); every exception is caught and printed, nothing is returned.
\* The lvlUSD/USDC pool divides balances[0] by 10**6 and balances[1] by 10**18.
get_token_balances(abi_type, a1, a2) ==
    IF abi_type = "get_balances"
    THEN IF ~a1.ok THEN Op("get_token_balances", "caught", NoData, 1, TRUE)
         ELSE Op("get_token_balances", "return",
                 [lvlUSD_balance |-> Scaled(a1.value, 6),
                  other_token_balance |-> Scaled(a2.value, 18)], 1, FALSE)
    ELSE IF ~a1.ok THEN Op("get_token_balances", "caught", NoData, 1, TRUE)
    ELSE IF ~a2.ok THEN Op("get_token_balances", "caught", NoData, 2, TRUE)
    ELSE Op("get_token_balances", "return",
            [lvlUSD_balance |-> Scaled(a1.value, 18),
             other_token_balance |-> Scaled(a2.value, 18)], 2, FALSE)

\* One printed figure: its label, the unit or token it is shown under, and
\* the value.
Figure(label, unit, value) == [label |-> label, unit |-> unit, value |-> value]

\* The three prints of get_supply_info and of the supply module, from the
\* values computed (the module's names carry _total_).
SupplyFigures(v) ==
    LET lvl == IF "lvlUSD_supply" \in DOMAIN v
               THEN v.lvlUSD_supply ELSE v.lvlUSD_total_supply
        slvl == IF "slvlUSD_supply" \in DOMAIN v
                THEN v.slvlUSD_supply ELSE v.slvlUSD_total_supply
    IN  <<Figure("Total supply of lvlUSD", "lvlUSD", lvl),
          Figure("Total supply of slvlUSD", "slvlUSD", slvl),
          Figure("Percentage of slvlUSD over lvlUSD", "%", v.percentage)>>

\* The three prints of get_aUSDC_situation and of the aUSDC module.
AUSDCFigures(v) ==
    <<Figure("Total Supply USD", "USD", v.total_supply),
      Figure("Total Borrow USD", "USD", v.total_borrow),
      Figure("Available Liquidity", "USD", v.available_liquidity)>>

\* The balance prints of get_token_balances: '<pool> lvlUSD Balance' and
\* '<pool> USDC Balance' or '<pool> slvlUSD Balance'.
PoolFigures(abi_type, r) ==
    IF r.kind # "return" THEN <<>>
    ELSE LET other == IF abi_type = "get_balances" THEN "USDC" ELSE "slvlUSD"
         IN  <<Figure("lvlUSD Balance", "lvlUSD", r.value.lvlUSD_balance),
               Figure(other \o " Balance", other, r.value.other_token_balance)>>

\* The pools of get_curve_pools, in call order, with the abi_type passed.
CurvePools == <<"get_balances", "balances">>

\* What get_token_balances prints: the balances, or 'Error for <pool>'.
PoolLine(r) == IF r.kind = "return" THEN "balances" ELSE "error_for_pool"

----------------------------------------------------------------------------
(* The scripts.                                                            *)

Programs == {"main", "euler", "morpho"}

\* The sections of main(), in the order of its try block.
Sections == <<"supply", "collateral", "aUSDC", "stakehouse", "curve",
              "lvl_pendle", "slvl_pendle">>

SectionSet == {Sections[k] : k \in 1..Len(Sections)}

\* The market lists of the three lending sections.
stakehouse_markets == 3

lvlusd_markets == 2

slvlusd_markets == 2

\* What main() holds for a section: nothing yet, None, or a dict.  main()
\* never reads the dict again; its content is in lastOp when it is returned.
Unset == "unset"

ReturnedNone == "none"

ReturnedDict == "data"

\* The stream sys.stdout is bound to when the interpreter starts; the
\* scripts run from a console never rebind it, their prints are in `out`.
Console == 0

\* Module globals before the import that sets them.
NotImported == [supply |-> NoData, aUSDC |-> NoData]

Init ==
    /\ program \in Programs
    /\ pc = CASE program = "main" -> "import_supply"
               [] program = "euler" -> "euler_fetch"
               [] program = "morpho" -> "example"
    /\ idx = 1
    /\ imported = NotImported
    /\ results = [s \in SectionSet |-> Unset]
    /\ fetched = {}
    /\ populated = {}
    /\ marked = {}
    /\ out = <<>>
    /\ positions = NoData
    /\ lastOp = NoOp
    /\ fetchLog = <<>>
    /\ reads = <<>>
    /\ shown = <<>>
    /\ claimable = NoData
    /\ sys_stdout = Console
    /\ buffers = <<>>
    /\ threads = <<>>

\* An exception no handler catches ends the process with a traceback.
Abort(op) ==
    /\ pc' = "aborted"
    /\ lastOp' = op
    /\ UNCHANGED <<program, claimable, stdoutVars, idx, imported, results, fetched, populated,
                   marked, out, positions>>

\* A call that never returns: the script stays where it is for good.
Hang(op, section) ==
    /\ pc' = "hung"
    /\ lastOp' = op
    /\ fetched' = fetched \cup section
    /\ UNCHANGED <<program, claimable, stdoutVars, idx, imported, results, populated, marked,
                   out, positions>>

\* main.py line 9: importing get_lvlUSD_slvlUSD_supply runs its reads and
\* prints the three figures.
ImportSupply ==
    /\ program = "main" /\ pc = "import_supply"
    /\ fetchLog' = <<>>
    /\ \E a1, a2 \in RpcAnswers :
          LET r == SupplyModule(a1, a2) IN
          /\ reads' = TotalSupplyReads(a1, a2)
          /\ shown' = IF r.kind = "return" THEN SupplyFigures(r.value) ELSE <<>>
          /\ IF r.kind = "raise" THEN Abort(r)
             ELSE /\ imported' = [imported EXCEPT !.supply = r.value]
                  /\ pc' = "import_aUSDC"
                  /\ out' = <<"lvlUSD_supply", "slvlUSD_supply", "percentage">>
                  /\ lastOp' = r
                  /\ UNCHANGED <<program, claimable, stdoutVars, idx, results, fetched, populated,
                                 marked, positions>>

\* main.py line 24: importing get_aUSDC_info runs its reads and prints the
\* three figures.
ImportAUSDC ==
    /\ program = "main" /\ pc = "import_aUSDC"
    /\ fetchLog' = <<>>
    /\ \E a1, a2 \in RpcAnswers :
          LET r == AUSDCModule(a1, a2) IN
          /\ reads' = TotalSupplyReads(a1, a2)
          /\ shown' = IF r.kind = "return" THEN AUSDCFigures(r.value) ELSE <<>>
          /\ IF r.kind = "raise" THEN Abort(r)
             ELSE /\ imported' = [imported EXCEPT !.aUSDC = r.value]
                  /\ pc' = "import_curve"
                  /\ out' = <<"total_supply", "total_borrow", "available_liquidity">>
                  /\ lastOp' = r
                  /\ UNCHANGED <<program, claimable, stdoutVars, idx, results, fetched, populated,
                                 marked, positions>>

\* main.py line 32: importing get_lvlusd_curve_pool raises when
\* web3.is_connected() is false, then prints both pools' balances (errors
\* caught inside get_token_balances).
ImportCurve ==
    /\ program = "main" /\ pc = "import_curve"
    /\ fetchLog' = <<>>
    /\ reads' = <<>>
    /\ \E connected \in BOOLEAN :
          IF ~connected
          THEN /\ Abort(Op("import_curve", "raise", NoData, 1, TRUE))
               /\ shown' = <<>>
          ELSE \E a1, a2, b1, b2 \in RpcAnswers :
               LET r1 == get_token_balances(CurvePools[1], a1, a2)
                   r2 == get_token_balances(CurvePools[2], b1, b2)
               IN
               /\ pc' = "check_connections"
               /\ out' = <<PoolLine(r1), PoolLine(r2)>>
               /\ shown' = PoolFigures(CurvePools[1], r1)
                              \o PoolFigures(CurvePools[2], r2)
               /\ lastOp' = Op("import_curve", "return", NoData, 1, FALSE)
               /\ UNCHANGED <<program, claimable, stdoutVars, idx, imported, results, fetched,
                              populated, marked, positions>>

\* main.check_web3_connections: prints one line per connection, never raises.
CheckConnections ==
    /\ program = "main" /\ pc = "check_connections"
    /\ \E all_connected \in BOOLEAN :
          out' = IF all_connected THEN <<"connections_ok">>
                 ELSE <<"connections_failed", "data_may_be_incomplete">>
    /\ pc' = "supply"
    /\ lastOp' = NoOp
    /\ fetchLog' = <<>>
    /\ reads' = <<>>
    /\ shown' = <<>>
    /\ UNCHANGED <<program, claimable, stdoutVars, idx, imported, results, fetched, populated,
                   marked, positions>>

\* main(): except Exception as e: print("Error generating dashboard"); the
\* sections after the one that raised are not run.
ExceptInMain(section, op) ==
    /\ pc' = "complete"
    /\ fetched' = fetched \cup {section}
    /\ marked' = marked \cup {section}
    /\ out' = <<"header", "error_generating_dashboard">>
    /\ lastOp' = op
    /\ UNCHANGED <<program, claimable, stdoutVars, idx, imported, results, populated, positions>>

\* A section function returned v to main(), which assigns it and goes on.
SectionReturns(section, v, lines, ok, next) ==
    /\ pc' = next
    /\ idx' = 1
    /\ results' = [results EXCEPT ![section] = v]
    /\ fetched' = fetched \cup {section}
    /\ marked' = IF ok THEN marked ELSE marked \cup {section}
    /\ populated' = IF ok THEN populated \cup {section} ELSE populated
    /\ out' = lines

\* 1. supply_data = get_supply_info()
SupplyInfo ==
    /\ program = "main" /\ pc = "supply"
    /\ fetchLog' = <<>>
    /\ \E a1, a2 \in RpcAnswers :
          LET r == get_supply_info(a1, a2) IN
          /\ reads' = TotalSupplyReads(a1, a2)
          /\ shown' = IF r.kind = "return" THEN SupplyFigures(r.value) ELSE <<>>
          /\ IF r.kind = "raise" THEN ExceptInMain("supply", r)
             ELSE /\ SectionReturns("supply", ReturnedDict,
                                    <<"header", "lvlUSD_supply", "slvlUSD_supply",
                                      "percentage">>, TRUE, "collateral_test")
                  /\ lastOp' = r
                  /\ UNCHANGED <<program, claimable, stdoutVars, imported, positions>>

\* get_collateral_composition returned None after printing an error line.
CollateralFails(line, op) ==
    /\ SectionReturns("collateral", ReturnedNone, <<"header", line>>, FALSE, "aUSDC")
    /\ lastOp' = op
    /\ positions' = NoData
    /\ UNCHANGED <<program, claimable, stdoutVars, imported>>

\* 2. collateral_data = get_collateral_composition(): the connection test.
CollateralTest ==
    /\ program = "main" /\ pc = "collateral_test"
    /\ reads' = <<>>
    /\ shown' = <<>>
    /\ \E resp \in Responses :
          LET ok == test_api_connection(resp)
              op == Op("test_api_connection", "return", NoData, 1, ~ok)
          IN  /\ fetchLog' = <<LogEntry("test_api_connection", resp,
                                  Fetched(IF ok THEN "return" ELSE "false", NoData))>>
              /\ IF ~ok THEN CollateralFails("zapper_connection_failed", op)
                 ELSE /\ pc' = "collateral_positions"
                      /\ fetched' = fetched \cup {"collateral"}
                      /\ out' = <<"header", "connection_ok">>
                      /\ lastOp' = op
                      /\ UNCHANGED <<program, claimable, stdoutVars, idx, imported, results,
                                     populated, marked, positions>>

\* defi_positions = zapper.get_defi_positions(wallet_addresses), inside try.
CollateralPositions ==
    /\ program = "main" /\ pc = "collateral_positions"
    /\ reads' = <<>>
    /\ shown' = <<>>
    /\ \E resp \in Responses :
          LET r == get_defi_positions(resp) IN
          /\ fetchLog' = <<LogEntry("zapper", resp, fetch_defi_positions(resp))>>
          /\ IF r.kind # "return" THEN CollateralFails("error_fetching_zapper", r)
             ELSE /\ pc' = "collateral_summary"
                  /\ positions' = r.value
                  /\ lastOp' = r
                  /\ UNCHANGED <<program, claimable, stdoutVars, idx, imported, results, fetched,
                                 populated, marked, out>>

\* summary = zapper.get_defi_summary(wallet_addresses), the two reports and
\* the returned dict.
CollateralSummary ==
    /\ program = "main" /\ pc = "collateral_summary"
    /\ reads' = <<>>
    /\ shown' = <<>>
    /\ \E r1, r2 \in Responses :
          LET r == get_defi_summary(r1, r2)
              f == fetch_defi_positions(r1)
          IN
          /\ fetchLog' = IF f.kind = "return"
                         THEN <<LogEntry("zapper", r1, f),
                                LogEntry("zapper", r2, fetch_defi_positions(r2))>>
                         ELSE <<LogEntry("zapper", r1, f)>>
          /\ IF r.kind # "return" THEN CollateralFails("error_fetching_zapper", r)
             ELSE /\ SectionReturns("collateral", ReturnedDict,
                         <<"header", "connection_ok", "defi_report", "claimable_report">>,
                         TRUE, "aUSDC")
                  /\ lastOp' = r
                  /\ positions' = NoData
                  /\ UNCHANGED <<program, claimable, stdoutVars, imported>>

\* 3. aUSDC_data = get_aUSDC_situation()
AUSDCSituation ==
    /\ program = "main" /\ pc = "aUSDC"
    /\ fetchLog' = <<>>
    /\ \E a1, a2 \in RpcAnswers :
          LET r == get_aUSDC_situation(a1, a2) IN
          /\ reads' = TotalSupplyReads(a1, a2)
          /\ shown' = IF r.kind = "return" THEN AUSDCFigures(r.value) ELSE <<>>
          /\ IF r.kind = "raise" THEN ExceptInMain("aUSDC", r)
             ELSE /\ SectionReturns("aUSDC", ReturnedDict,
                                    <<"header", "total_supply", "total_borrow",
                                      "available_liquidity">>, TRUE, "stakehouse")
                  /\ lastOp' = r
                  /\ UNCHANGED <<program, claimable, stdoutVars, imported, positions>>

\* MarketLine as it must not be: a null market taken for a failed fetch.
MarketLineNullIsError(r) ==
    IF r.kind # "return" THEN "error_fetching_market"
    ELSE IF r.value \in {NullEntity, NoData} THEN "error_fetching_market"
    ELSE "market"

\* The line one iteration of a market loop prints: the market's figures,
\* 'Market <name> not found' for a null market, or 'Error fetching <name>
\* market data' from the loop's own except (a raising call, or the TypeError
\* of market_data["marketByUniqueKey"] when data is null).
MarketLine(r) ==
    IF r.kind # "return" THEN "error_fetching_market"
    ELSE IF r.value = NullEntity THEN "market_not_found"
    ELSE IF r.value = NoData THEN "error_fetching_market"
    ELSE "market"

\* m[...][name] of the market in snapshot snap of the provider's data.
Field(snap, name) == [snap |-> snap, field |-> name]

\* float(x) * 100
Times100(x) == [times100 |-> x]

\* The rewards of the market in a snapshot: the odd snapshots have one.
Rewards(snap) == IF snap % 2 = 1 THEN <<Field(snap, "rewards.supplyApr")>> ELSE <<>>

\* The prints of a found market as they must not be: the rates as the
\* provider's fractions, the borrow value under the supply's '$'.
MarketFiguresUnconverted(snap) ==
    <<Figure("Total Supply", "loanAsset", Field(snap, "supplyAssetsUsd")),
      Figure("Total Supply", "USD", Field(snap, "borrowAssetsUsd")),
      Figure("Total Borrow", "loanAsset", Field(snap, "borrowAssetsUsd")),
      Figure("Total Borrow", "USD", Field(snap, "borrowAssetsUsd")),
      Figure("Available Liquidity", "loanAsset", Field(snap, "liquidityAssetsUsd")),
      Figure("Available Liquidity", "USD", Field(snap, "liquidityAssetsUsd")),
      Figure("Supply APY", "%", Field(snap, "supplyApy")),
      Figure("Borrow APY", "%", Field(snap, "borrowApy")),
      Figure("Utilization", "%", Field(snap, "utilization"))>>

\* The figures one iteration prints for a market that was found: the USD
\* values, once before the loan asset's symbol and once after '$', the three
\* rates and one line per reward.
MarketFigures(snap) ==
    <<Figure("Total Supply", "loanAsset", Field(snap, "supplyAssetsUsd")),
      Figure("Total Supply", "USD", Field(snap, "supplyAssetsUsd")),
      Figure("Total Borrow", "loanAsset", Field(snap, "borrowAssetsUsd")),
      Figure("Total Borrow", "USD", Field(snap, "borrowAssetsUsd")),
      Figure("Available Liquidity", "loanAsset", Field(snap, "liquidityAssetsUsd")),
      Figure("Available Liquidity", "USD", Field(snap, "liquidityAssetsUsd")),
      Figure("Supply APY", "%", Times100(Field(snap, "supplyApy"))),
      Figure("Borrow APY", "%", Times100(Field(snap, "borrowApy"))),
      Figure("Utilization", "%", Times100(Field(snap, "utilization")))>>
    \o [k \in 1..Len(Rewards(snap)) |->
           Figure("Supply APR", "%", Times100(Rewards(snap)[k]))]

\* The lines of a market loop that carry market['name']: 'Market: <name>',
\* 'Market <name> not found' and 'Error fetching <name> market data: <e>'.
MarketNameLines == {"market", "market_not_found", "error_fetching_market"}

\* One iteration of `for market in <markets>:` of get_stakehouse_situation,
\* get_lvlusd_pendle_situation or get_slvlusd_pendle_situation; after the
\* last one the function returns None to main().
MarketLoop(section, markets, next) ==
    /\ program = "main" /\ pc = section
    /\ reads' = <<>>
    /\ \E resp \in Responses :
          LET r == get_market_by_id(resp)
              line == MarketLine(r)
              last == idx = markets
          IN
          /\ shown' = IF line = "market" THEN MarketFigures(r.value) ELSE <<>>
          /\ fetchLog' = <<LogEntry("morpho", resp, _execute_query(resp))>>
          /\ IF r.kind = "hang"
             THEN Hang(r, {section})
             ELSE /\ out' = (IF idx = 1 THEN <<"header">> ELSE out) \o <<line>>
                  /\ fetched' = fetched \cup {section}
                  /\ marked' = IF line # "market"
                                THEN marked \cup {section} ELSE marked
                  /\ populated' = IF line = "market"
                                   THEN populated \cup {section} ELSE populated
                  /\ idx' = IF last THEN 1 ELSE idx + 1
                  /\ pc' = IF last THEN next ELSE section
                  /\ results' = IF last THEN [results EXCEPT ![section] = ReturnedNone]
                                 ELSE results
                  /\ lastOp' = r
                  /\ UNCHANGED <<program, claimable, stdoutVars, imported, positions>>

\* 4. stakehouse_data = get_stakehouse_situation()
StakehouseSituation == MarketLoop("stakehouse", stakehouse_markets, "curve")

\* 5. curve_data = get_curve_pools(): one get_token_balances per pool; the
\* function returns {"timestamp": ...} whatever the reads did.
CurvePoolsStep ==
    /\ program = "main" /\ pc = "curve"
    /\ fetchLog' = <<>>
    /\ reads' = <<>>
    /\ \E a1, a2 \in RpcAnswers :
          LET r == get_token_balances(CurvePools[idx], a1, a2)
              line == PoolLine(r)
              last == idx = Len(CurvePools)
          IN
          /\ out' = (IF idx = 1 THEN <<"header">> ELSE out) \o <<line>>
          /\ shown' = PoolFigures(CurvePools[idx], r)
          /\ fetched' = fetched \cup {"curve"}
          /\ marked' = IF r.kind # "return" THEN marked \cup {"curve"} ELSE marked
          /\ populated' = IF r.kind = "return"
                           THEN populated \cup {"curve"} ELSE populated
          /\ idx' = IF last THEN 1 ELSE idx + 1
          /\ pc' = IF last THEN "lvl_pendle" ELSE "curve"
          /\ results' = IF last
                         THEN [results EXCEPT !["curve"] = ReturnedDict]
                         ELSE results
          /\ lastOp' = r
          /\ UNCHANGED <<program, claimable, stdoutVars, imported, positions>>

\* 6. lvlusd_pendle_data = get_lvlusd_pendle_situation()
LvlusdPendleSituation == MarketLoop("lvl_pendle", lvlusd_markets, "slvl_pendle")

\* slvlusd_pendle_data = get_slvlusd_pendle_situation()
SlvlusdPendleSituation == MarketLoop("slvl_pendle", slvlusd_markets, "complete")

\* main(): the lines after the try block: REPORT COMPLETE and the timings.
ReportComplete ==
    /\ program = "main" /\ pc = "complete"
    /\ pc' = "done"
    /\ out' = <<"report_complete">>
    /\ lastOp' = NoOp
    /\ fetchLog' = <<>>
    /\ reads' = <<>>
    /\ shown' = <<>>
    /\ UNCHANGED <<program, claimable, stdoutVars, idx, imported, results, fetched, populated,
                   marked, positions>>

\* fetch_vault_data ended before its first print.
NothingPrinted == [printed |-> <<>>]

\* get_lvlUSD_euler_pool.fetch_vault_data: requests.get(url) without timeout,
\* raise_for_status(), data.get(vault_address, {}) (an AttributeError when
\* the body is null), then the two fields with "0" for what is missing (no
\* entry for the vault, or an entry without totalBorrowed and totalCash), their
\* sum, and the prints.  The figures are Decimal and the prints divide them by
\* the float 1e18, which Decimal does not support: after 'Vault:' the first
\* figure raises TypeError, with the locals as they are in the value.
fetch_vault_data(resp) ==
    LET t == Transport(resp, NoTimeout)
        has_entry == resp.data \in Snapshots
        total_borrowed == IF has_entry THEN resp.data ELSE 0
        total_cash == IF has_entry THEN resp.data ELSE 0
    IN  IF t # "answer" THEN Op("fetch_vault_data", t, NothingPrinted, 1, TRUE)
        ELSE IF RaiseForStatus(resp.status)
             THEN Op("fetch_vault_data", "raise", NothingPrinted, 1, TRUE)
        ELSE IF resp.data = NoData
             THEN Op("fetch_vault_data", "raise", NothingPrinted, 1, FALSE)
        ELSE Op("fetch_vault_data", "raise",
                [printed |-> <<"vault">>,
                 total_borrowed |-> total_borrowed,
                 total_cash |-> total_cash,
                 total_supply |-> total_borrowed + total_cash,
                 available_liquidity |-> total_cash], 1, FALSE)

\* python get_lvlUSD_euler_pool.py: the call is not inside a try, the
\* exception ends the process.
EulerFetch ==
    /\ program = "euler" /\ pc = "euler_fetch"
    /\ reads' = <<>>
    /\ shown' = <<>>
    /\ \E resp \in Responses :
          LET r == fetch_vault_data(resp) IN
          /\ fetchLog' = <<LogEntry("euler", resp, Fetched(r.kind, resp.data))>>
          /\ pc' = IF r.kind = "hang" THEN "hung" ELSE "aborted"
          /\ out' = r.value.printed
          /\ lastOp' = r
          /\ UNCHANGED <<program, claimable, stdoutVars, idx, imported, results, fetched, populated,
                         marked, positions>>

\* The figures of the example block of get_morpho_vault_allocation.main:
\* the native amounts as the provider gives them, the rates, the USD values.
ExampleFigures(snap) ==
    <<Figure("Total Supply", "loanAsset", Field(snap, "supplyAssets")),
      Figure("Total Borrow", "loanAsset", Field(snap, "borrowAssets")),
      Figure("Available Liquidity", "loanAsset", Field(snap, "liquidityAssets")),
      Figure("Supply APY", "%", Times100(Field(snap, "supplyApy"))),
      Figure("Borrow APY", "%", Times100(Field(snap, "borrowApy"))),
      Figure("Utilization", "%", Times100(Field(snap, "utilization"))),
      Figure("Total Supply USD", "USD", Field(snap, "supplyAssetsUsd")),
      Figure("Total Borrow USD", "USD", Field(snap, "borrowAssetsUsd")),
      Figure("Available Liquidity USD", "USD", Field(snap, "liquidityAssetsUsd"))>>

\* The figures of the lvlUSD and slvlUSD loops of get_specific_markets_info:
\* float(supplyAssets) before the loan asset's symbol, the USD value after '$'.
NativeMarketFigures(snap) ==
    <<Figure("Total Supply", "loanAsset", Field(snap, "supplyAssets")),
      Figure("Total Supply", "USD", Field(snap, "supplyAssetsUsd")),
      Figure("Total Borrow", "loanAsset", Field(snap, "borrowAssets")),
      Figure("Total Borrow", "USD", Field(snap, "borrowAssetsUsd")),
      Figure("Available Liquidity", "loanAsset", Field(snap, "liquidityAssets")),
      Figure("Available Liquidity", "USD", Field(snap, "liquidityAssetsUsd")),
      Figure("Supply APY", "%", Times100(Field(snap, "supplyApy"))),
      Figure("Borrow APY", "%", Times100(Field(snap, "borrowApy"))),
      Figure("Utilization", "%", Times100(Field(snap, "utilization")))>>
    \o [k \in 1..Len(Rewards(snap)) |->
           Figure("Supply APR", "%", Times100(Rewards(snap)[k]))]

\* python get_morpho_vault_allocation.py, main(): the cbBTC/USDC example in
\* its own try, before get_specific_markets_info().
MorphoExample ==
    /\ program = "morpho" /\ pc = "example"
    /\ reads' = <<>>
    /\ \E resp \in Responses :
          LET r == get_market_by_id(resp)
              line == MarketLine(r)
          IN
          /\ fetchLog' = <<LogEntry("morpho", resp, _execute_query(resp))>>
          /\ shown' = IF line = "market" THEN ExampleFigures(r.value) ELSE <<>>
          /\ IF r.kind = "hang"
             THEN Hang(r, {})
             ELSE /\ pc' = "info_stakehouse"
                  /\ out' = <<"header", line>>
                  /\ lastOp' = r
                  /\ UNCHANGED <<program, claimable, stdoutVars, idx, imported, results, fetched,
                                 populated, marked, positions>>

\* One iteration of one of the three loops of get_specific_markets_info; the
\* first loop prints the USD values as stakehouse_situation does, the other
\* two print the native amounts.
InfoLoop(section, markets, next) ==
    /\ program = "morpho" /\ pc = section
    /\ reads' = <<>>
    /\ \E resp \in Responses :
          LET r == get_market_by_id(resp)
              line == MarketLine(r)
              last == idx = markets
          IN
          /\ fetchLog' = <<LogEntry("morpho", resp, _execute_query(resp))>>
          /\ shown' = IF line # "market" THEN <<>>
                      ELSE IF section = "info_stakehouse"
                           THEN MarketFigures(r.value)
                      ELSE NativeMarketFigures(r.value)
          /\ IF r.kind = "hang"
             THEN Hang(r, {section})
             ELSE /\ out' = (IF idx = 1 THEN <<"header">> ELSE out) \o <<line>>
                  /\ fetched' = fetched \cup {section}
                  /\ marked' = IF line # "market"
                                THEN marked \cup {section} ELSE marked
                  /\ populated' = IF line = "market"
                                   THEN populated \cup {section} ELSE populated
                  /\ idx' = IF last THEN 1 ELSE idx + 1
                  /\ pc' = IF last THEN next ELSE section
                  /\ lastOp' = r
                  /\ UNCHANGED <<program, claimable, stdoutVars, imported, results, positions>>

InfoStakehouse == InfoLoop("info_stakehouse", stakehouse_markets, "info_lvlusd")

InfoLvlusd == InfoLoop("info_lvlusd", lvlusd_markets, "info_slvlusd")

InfoSlvlusd == InfoLoop("info_slvlusd", slvlusd_markets, "done")

Next ==
    \/ ImportSupply
    \/ ImportAUSDC
    \/ ImportCurve
    \/ CheckConnections
    \/ SupplyInfo
    \/ CollateralTest
    \/ CollateralPositions
    \/ CollateralSummary
    \/ AUSDCSituation
    \/ StakehouseSituation
    \/ CurvePoolsStep
    \/ LvlusdPendleSituation
    \/ SlvlusdPendleSituation
    \/ ReportComplete
    \/ EulerFetch
    \/ MorphoExample
    \/ InfoStakehouse
    \/ InfoLvlusd
    \/ InfoSlvlusd

Spec == Init /\ [][Next]_vars

----------------------------------------------------------------------------
(* The scaling of one on-chain amount, on its own.                         *)

\* The exponents of the divisions: 10**18 for lvlUSD and slvlUSD, 10**6 for
\* aEthUSDC and its variable debt.
Decimals == {6, 18}

\* The uint256 of whole tokens and units more, for a token of d decimals.
RawAmount(whole, units, d) == Add(Mul(BitsOf(whole), Pow10(d)), BitsOf(units))

\* A totalSupply() answer of a token of some decimals is at hand.
ScaleInit ==
    /\ program = "scale"
    /\ pc = "read"
    /\ \E whole \in 0..MaxWhole, units \in 0..MaxUnits, d \in Decimals :
          reads = <<[ok |-> TRUE, value |-> RawAmount(whole, units, d),
                     decimals |-> d]>>
    /\ idx = 1
    /\ imported = NotImported
    /\ results = [s \in SectionSet |-> Unset]
    /\ fetched = {}
    /\ populated = {}
    /\ marked = {}
    /\ out = <<>>
    /\ positions = NoData
    /\ lastOp = NoOp
    /\ fetchLog = <<>>
    /\ shown = <<>>
    /\ claimable = NoData
    /\ sys_stdout = Console
    /\ buffers = <<>>
    /\ threads = <<>>

\* <contract>.functions.totalSupply().call() / 10**d
Normalize ==
    /\ program = "scale" /\ pc = "read"
    /\ pc' = "scaled"
    /\ lastOp' = Op("scale", "return",
                    TrueDiv(reads[1].value, reads[1].decimals), 1, FALSE)
    /\ UNCHANGED <<program, claimable, stdoutVars, idx, imported, results, fetched, populated,
                   marked, out, positions, fetchLog, reads, shown>>

ScaleNext == Normalize

ScaleSpec == ScaleInit /\ [][ScaleNext]_vars

----------------------------------------------------------------------------
(* The portfolio client on the provider's data, edge by edge, and the two  *)
(* reports of get_collateral_composition.                                  *)

\* Position edges of one app, and tokens of one contract position.
MaxEdges == 3

MaxTokens == 3

\* A JSON null (None), and a key a JSON object does not have.
PyNone == "<None>"

Absent == "<absent>"

\* The balanceUSD numbers of the provider: 0.1, 0.2 and 0.3.
UsdValues == [n \in 1..3 |-> FromDecimal(n, 1)]

\* tokens { metaType token { balanceUSD } } of a ContractPositionBalance.
TokenInfo(metaType, n) == [metaType |-> metaType, balanceUSD |-> UsdValues[n]]

TokenInfos ==
    {TokenInfo("SUPPLIED", 3), TokenInfo("SUPPLIED", 2), TokenInfo("CLAIMABLE", 1),
     TokenInfo(PyNone, 1), TokenInfo(Absent, 2)}

\* The sequences over S of the lengths lo..hi.
SeqsOf(S, lo, hi) == UNION {[1..n -> S] : n \in lo..hi}

\* The node of a position edge.
PositionNode(type, n, tokens) ==
    [type |-> type, balanceUSD |-> UsdValues[n], tokens |-> tokens]

\* Nodes without tokens, and one with a claimable token.
PlainNodes ==
    {PositionNode("app-token", n, <<>>) : n \in 1..3}
    \cup {PositionNode("contract-position", 2, <<>>),
          PositionNode("contract-position", 3, <<TokenInfo("CLAIMABLE", 1)>>)}

\* Contract positions with tokens.
TokenNodes ==
    {PositionNode("contract-position", 3, ts) : ts \in SeqsOf(TokenInfos, 1, MaxTokens)}

\* The node of an app edge: app, network and positionBalances.edges.
AppNode(name, edges) == [displayName |-> name, network |-> "Ethereum", edges |-> edges]

\* portfolioV2.appBalances: the provider's total and byApp.edges.  One app
\* with up to MaxEdges positions, one app with one contract position with
\* tokens, or two apps with one position each.
PortfolioData ==
    {[totalBalanceUSD |-> Field(1, "totalBalanceUSD"), edges |-> apps] :
        apps \in {<<AppNode("Morpho", es)>> : es \in SeqsOf(PlainNodes, 0, MaxEdges)}
            \cup {<<AppNode("Morpho", <<n>>)>> : n \in TokenNodes}
            \cup {<<AppNode("Morpho", <<n1>>), AppNode("Pendle", <<n2>>)>> :
                     n1, n2 \in PlainNodes}}

\* sum(...) of floats: from 0, left to right.
RECURSIVE FloatSum(_)
FloatSum(xs) ==
    IF xs = <<>> THEN FloatZero
    ELSE FloatAdd(FloatSum(SubSeq(xs, 1, Len(xs) - 1)), xs[Len(xs)])

\* The dataclass DeFiPosition, with the fields the reports and the summary
\* read; meta_type is "" when it is not given.
DeFiPosition(app, node, balance_usd, meta_type, tokens) ==
    [app_name |-> app.displayName, network |-> app.network,
     position_type |-> node.type, balance_usd |-> balance_usd,
     meta_type |-> meta_type, underlying_tokens |-> tokens]

\* token_info.get('metaType', 'UNKNOWN'): the default is for a missing key;
\* a null metaType is returned as None.
MetaTypeKey(token_info) ==
    IF token_info.metaType = Absent THEN "UNKNOWN" ELSE token_info.metaType

\* The positions get_defi_positions appends for one position node: one for
\* an app-token, one per key of meta_types (in insertion order) for a
\* contract-position with tokens, one for a contract-position without.
node_positions(app, node) ==
    IF node.type = "app-token"
    THEN <<DeFiPosition(app, node, node.balanceUSD, "", node.tokens)>>
    ELSE IF node.type # "contract-position" THEN <<>>
    ELSE IF node.tokens = <<>>
         THEN <<DeFiPosition(app, node, node.balanceUSD, "", <<>>)>>
    ELSE LET tokens == node.tokens
             first == SelectSeq([k \in DOMAIN tokens |-> k],
                         LAMBDA k : \A j \in 1..(k - 1) :
                             MetaTypeKey(tokens[j]) # MetaTypeKey(tokens[k]))
         IN  [g \in DOMAIN first |->
                LET meta_type == MetaTypeKey(tokens[first[g]])
                    group == SelectSeq(tokens, LAMBDA t : MetaTypeKey(t) = meta_type)
                    total_usd == FloatSum([k \in DOMAIN group |-> group[k].balanceUSD])
                IN  DeFiPosition(app, node, total_usd, meta_type, group)]

\* The positions of the position edges k.. of one app.
RECURSIVE app_positions(_, _)
app_positions(app, k) ==
    IF k > Len(app.edges) THEN <<>>
    ELSE node_positions(app, app.edges[k]) \o app_positions(app, k + 1)

\* ZapperAPI.get_defi_positions on the data fetched: the walk over the app
\* edges k.. and their position edges.
RECURSIVE defi_positions_from(_, _)
defi_positions_from(portfolio_data, k) ==
    IF k > Len(portfolio_data.edges) THEN <<>>
    ELSE app_positions(portfolio_data.edges[k], 1)
            \o defi_positions_from(portfolio_data, k + 1)

\* f"{position.app_name} ({position.network})"
app_key(position) == <<position.app_name, position.network>>

\* count and total_usd of the positions of a group, added in list order.
Tally(group) ==
    [count |-> Len(group),
     total_usd |-> FloatSum([k \in DOMAIN group |-> group[k].balance_usd])]

\* if position.meta_type: None and "" are not counted.
HasMetaType(position) == position.meta_type \notin {"", PyNone}

\* ZapperAPI.get_defi_summary from the data of its own fetch and the
\* positions of get_defi_positions; a dict is a function of its keys.
summary_of(portfolio_data, defi_positions) ==
    LET Range == {defi_positions[k] : k \in DOMAIN defi_positions}
        app_summary ==
            [key \in {app_key(q) : q \in Range} |->
                Tally(SelectSeq(defi_positions, LAMBDA q : app_key(q) = key))]
        meta_type_summary ==
            [mt \in {q.meta_type : q \in {r \in Range : HasMetaType(r)}} |->
                Tally(SelectSeq(defi_positions, LAMBDA q : q.meta_type = mt))]
    IN  [total_value_usd |-> portfolio_data.totalBalanceUSD,
         position_count |-> Len(defi_positions),
         unique_apps |-> Cardinality(DOMAIN app_summary),
         app_summary |-> app_summary,
         meta_type_summary |-> meta_type_summary]

\* list.sort(key=lambda x: x.balance_usd, reverse=True): stable, the
\* positions of equal value keep their order.
RECURSIVE SortedByUsd(_)
SortedByUsd(ps) ==
    IF ps = <<>> THEN <<>>
    ELSE LET x == ps[Len(ps)]
             before == SortedByUsd(SubSeq(ps, 1, Len(ps) - 1))
             n == Cardinality({k \in DOMAIN before :
                                  ~FloatLess(before[k].balance_usd, x.balance_usd)})
         IN  SubSeq(before, 1, n) \o <<x>> \o SubSeq(before, n + 1, Len(before))

\* print_defi_report: what it leaves in the list it was given (line 415).
print_defi_report(defi_positions) == SortedByUsd(defi_positions)

\* get_claimable_positions: a new list.
get_claimable_positions(defi_positions) ==
    SelectSeq(defi_positions,
              LAMBDA q : q.meta_type = "CLAIMABLE"
                         /\ FloatLess(FromDecimal(1, 2), q.balance_usd))

\* print_claimable_report: what it leaves in the list it was given (line
\* 460); an empty list is returned from at once.
print_claimable_report(claimable_positions) ==
    IF claimable_positions = <<>> THEN claimable_positions
    ELSE SortedByUsd(claimable_positions)

\* The provider's answer to the requests of one call.
PortfolioAnswer == fetchLog[1].data

\* get_collateral_composition after the connection test, the provider
\* answering every request with the same data.
PortfolioInit ==
    /\ program = "portfolio"
    /\ pc = "positions"
    /\ \E d \in PortfolioData :
          fetchLog = <<LogEntry("zapper",
                         [net |-> "answer", status |-> 200, errors |-> FALSE,
                          data |-> d, retryOk |-> FALSE],
                         Fetched("return", d))>>
    /\ idx = 1
    /\ imported = NotImported
    /\ results = [s \in SectionSet |-> Unset]
    /\ fetched = {"collateral"}
    /\ populated = {}
    /\ marked = {}
    /\ out = <<"header", "connection_ok">>
    /\ positions = NoData
    /\ claimable = NoData
    /\ lastOp = NoOp
    /\ reads = <<>>
    /\ shown = <<>>
    /\ sys_stdout = Console
    /\ buffers = <<>>
    /\ threads = <<>>

\* Line 98: defi_positions = zapper.get_defi_positions(wallet_addresses)
PortfolioPositions ==
    /\ program = "portfolio" /\ pc = "positions"
    /\ positions' = defi_positions_from(PortfolioAnswer, 1)
    /\ lastOp' = Op("get_defi_positions", "return", NoData, 1, FALSE)
    /\ pc' = "summary"
    /\ UNCHANGED <<program, idx, imported, results, fetched, populated, marked,
                   out, fetchLog, reads, shown, claimable, stdoutVars>>

\* Line 99: summary = zapper.get_defi_summary(wallet_addresses)
PortfolioSummary ==
    /\ program = "portfolio" /\ pc = "summary"
    /\ lastOp' = Op("get_defi_summary", "return",
                    summary_of(PortfolioAnswer,
                               defi_positions_from(PortfolioAnswer, 1)), 2, FALSE)
    /\ pc' = "defi_report"
    /\ UNCHANGED <<program, idx, imported, results, fetched, populated, marked,
                   out, positions, fetchLog, reads, shown, claimable, stdoutVars>>

\* Line 101: print_defi_report(summary, defi_positions)
PrintDefiReport ==
    /\ program = "portfolio" /\ pc = "defi_report"
    /\ positions' = print_defi_report(positions)
    /\ out' = out \o <<"defi_report">>
    /\ pc' = "filter_claimable"
    /\ UNCHANGED <<program, idx, imported, results, fetched, populated, marked,
                   lastOp, fetchLog, reads, shown, claimable, stdoutVars>>

\* Line 103: claimable_positions = get_claimable_positions(defi_positions)
FilterClaimable ==
    /\ program = "portfolio" /\ pc = "filter_claimable"
    /\ claimable' = get_claimable_positions(positions)
    /\ pc' = "claimable_report"
    /\ UNCHANGED <<program, idx, imported, results, fetched, populated, marked,
                   out, positions, lastOp, fetchLog, reads, shown, stdoutVars>>

\* Lines 104-110: print_claimable_report(claimable_positions) and the dict
\* returned, which holds both lists.
PrintClaimableReport ==
    /\ program = "portfolio" /\ pc = "claimable_report"
    /\ claimable' = print_claimable_report(claimable)
    /\ out' = out \o <<"claimable_report">>
    /\ results' = [results EXCEPT !["collateral"] = ReturnedDict]
    /\ populated' = populated \cup {"collateral"}
    /\ pc' = "returned"
    /\ UNCHANGED <<program, idx, imported, fetched, marked, positions, lastOp,
                   fetchLog, reads, shown, stdoutVars>>

PortfolioNext ==
    \/ PortfolioPositions
    \/ PortfolioSummary
    \/ PrintDefiReport
    \/ FilterClaimable
    \/ PrintClaimableReport

PortfolioSpec == PortfolioInit /\ [][PortfolioNext]_vars

----------------------------------------------------------------------------
(* The vault allocation summary of the Morpho client.                      *)

\* Markets a vault allocates to.
MaxAllocations == 2

\* vaultByAddress is null: the vault is not found.
NoVault == [null |-> TRUE]

\* state.allocation[]: supplyAssets, 0 or a positive native amount, and
\* supplyAssetsUsd.
Allocations ==
    {[supplyAssets |-> a, supplyAssetsUsd |-> UsdValues[n]] : a \in 0..1, n \in 1..3}

\* state.totalAssetsUsd: 0, 0.3 or 0.6.
TotalAssetsUsd == {FloatZero, FromDecimal(3, 1), FromDecimal(6, 1)}

\* The data get_vault_allocation returns.
VaultData ==
    {[vaultByAddress |-> NoVault]}
    \cup {[vaultByAddress |-> [totalAssetsUsd |-> t, allocation |-> as]] :
             t \in TotalAssetsUsd, as \in SeqsOf(Allocations, 0, MaxAllocations)}

\* allocations.sort(key=lambda x: x['allocation_percentage'], reverse=True):
\* stable, equal percentages keep their order.
RECURSIVE SortedByPercentage(_)
SortedByPercentage(as) ==
    IF as = <<>> THEN <<>>
    ELSE LET x == as[Len(as)]
             before == SortedByPercentage(SubSeq(as, 1, Len(as) - 1))
             n == Cardinality({k \in DOMAIN before :
                     ~FloatLess(before[k].allocation_percentage,
                                x.allocation_percentage)})
         IN  SubSeq(before, 1, n) \o <<x>> \o SubSeq(before, n + 1, Len(before))

\* The dict {} a function returns for nothing.
EmptyDict == <<>>

\* get_vault_allocation_summary on the data fetched: {} for a null vault;
\* otherwise the allocations with float(supplyAssets) > 0, each with its
\* percentage of totalAssetsUsd, sorted, and the two totals.  The divisions
\* by a totalAssetsUsd of 0.0 raise ZeroDivisionError: line 625 for an
\* allocation, line 650 (0 / 0.0) when there is none.
get_vault_allocation_summary(data) ==
    LET vault == data.vaultByAddress IN
    IF "null" \in DOMAIN vault
    THEN Op("get_vault_allocation_summary", "return", EmptyDict, 1, FALSE)
    ELSE IF vault.totalAssetsUsd = FloatZero
    THEN Op("get_vault_allocation_summary", "raise", EmptyDict, 1, FALSE)
    ELSE LET total_assets_usd == vault.totalAssetsUsd
             included == SelectSeq(vault.allocation, LAMBDA a : a.supplyAssets > 0)
             allocations ==
                SortedByPercentage(
                    [k \in DOMAIN included |->
                        [supply_assets |-> included[k].supplyAssets,
                         supply_assets_usd |-> included[k].supplyAssetsUsd,
                         allocation_percentage |->
                            FloatMul(FloatDiv(included[k].supplyAssetsUsd,
                                              total_assets_usd), Hundred)]])
             total_allocated_usd ==
                FloatSum([k \in DOMAIN allocations |-> allocations[k].supply_assets_usd])
         IN  Op("get_vault_allocation_summary", "return",
                [total_assets_usd |-> total_assets_usd,
                 allocations |-> allocations,
                 total_allocated_usd |-> total_allocated_usd,
                 utilization_percentage |->
                    FloatMul(FloatDiv(total_allocated_usd, total_assets_usd), Hundred)],
                1, FALSE)

\* One call of get_vault_allocation_summary, the provider having answered.
VaultInit ==
    /\ program = "vault"
    /\ pc = "fetched"
    /\ \E d \in VaultData :
          fetchLog = <<LogEntry("morpho",
                         [net |-> "answer", status |-> 200, errors |-> FALSE,
                          data |-> d, retryOk |-> FALSE],
                         Fetched("return", d))>>
    /\ idx = 1
    /\ imported = NotImported
    /\ results = [s \in SectionSet |-> Unset]
    /\ fetched = {}
    /\ populated = {}
    /\ marked = {}
    /\ out = <<>>
    /\ positions = NoData
    /\ claimable = NoData
    /\ lastOp = NoOp
    /\ reads = <<>>
    /\ shown = <<>>
    /\ sys_stdout = Console
    /\ buffers = <<>>
    /\ threads = <<>>

\* Lines 606-651: the summary is built from the data and returned, or a
\* division raises.
VaultSummary ==
    /\ program = "vault" /\ pc = "fetched"
    /\ lastOp' = get_vault_allocation_summary(fetchLog[1].data)
    /\ pc' = IF lastOp'.kind = "return" THEN "returned" ELSE "raised"
    /\ UNCHANGED <<program, idx, imported, results, fetched, populated, marked,
                   out, positions, fetchLog, reads, shown, claimable, stdoutVars>>

VaultNext == VaultSummary

VaultSpec == VaultInit /\ [][VaultNext]_vars

----------------------------------------------------------------------------
(* The dashboard: cycles of dashboard.py that run at the same time, each   *)
(* in its own script thread of the one server process, at a market section *)
(* wrapped by capture_print_output.                                        *)

\* Cycles that run at the same time.
MaxCycles == 2

\* Lines the wrapped market function prints.
MaxLines == 2

Cycles == 1..MaxCycles

\* The streams: the console and the StringIO f of each cycle's wrapper,
\* named by the cycle.
Streams == {Console} \cup Cycles

\* A thread before wrapper() is called.
NotStarted == [pc |-> "call", old |-> Console, printed |-> 0, captured |-> <<>>]

DashInit ==
    /\ program = "dashboard"
    /\ pc = "markets"
    /\ sys_stdout = Console
    /\ buffers = [st \in Streams |-> <<>>]
    /\ threads = [c \in Cycles |-> NotStarted]
    /\ idx = 1
    /\ imported = NotImported
    /\ results = [s \in SectionSet |-> Unset]
    /\ fetched = {}
    /\ populated = {}
    /\ marked = {}
    /\ out = <<>>
    /\ positions = NoData
    /\ claimable = NoData
    /\ lastOp = NoOp
    /\ fetchLog = <<>>
    /\ reads = <<>>
    /\ shown = <<>>

DashUnchanged ==
    UNCHANGED <<program, pc, idx, imported, results, fetched, populated, marked,
                out, positions, lastOp, fetchLog, reads, shown, claimable>>

\* f = io.StringIO(); with redirect_stdout(f): __enter__ keeps the stream
\* sys.stdout is bound to and binds sys.stdout to f.
EnterRedirect(c) ==
    /\ program = "dashboard" /\ threads[c].pc = "call"
    /\ threads' = [threads EXCEPT ![c].pc = "func", ![c].old = sys_stdout]
    /\ sys_stdout' = c
    /\ UNCHANGED buffers
    /\ DashUnchanged

\* func(*args, **kwargs): one print of the market function; print writes to
\* the stream sys.stdout is bound to when it is called.
PrintLine(c) ==
    /\ program = "dashboard" /\ threads[c].pc = "func"
    /\ threads[c].printed < MaxLines
    /\ buffers' = [buffers EXCEPT ![sys_stdout] = Append(@, c)]
    /\ threads' = [threads EXCEPT ![c].printed = @ + 1]
    /\ UNCHANGED sys_stdout
    /\ DashUnchanged

\* The end of the with block: __exit__ binds sys.stdout to the stream kept.
ExitRedirect(c) ==
    /\ program = "dashboard" /\ threads[c].pc = "func"
    /\ threads[c].printed = MaxLines
    /\ sys_stdout' = threads[c].old
    /\ threads' = [threads EXCEPT ![c].pc = "getvalue"]
    /\ UNCHANGED buffers
    /\ DashUnchanged

\* return f.getvalue()
GetValue(c) ==
    /\ program = "dashboard" /\ threads[c].pc = "getvalue"
    /\ threads' = [threads EXCEPT ![c].pc = "returned", ![c].captured = buffers[c]]
    /\ UNCHANGED <<sys_stdout, buffers>>
    /\ DashUnchanged

DashNext ==
    \/ \E c \in Cycles : EnterRedirect(c)
    \/ \E c \in Cycles : PrintLine(c)
    \/ \E c \in Cycles : ExitRedirect(c)
    \/ \E c \in Cycles : GetValue(c)

DashSpec == DashInit /\ [][DashNext]_vars

----------------------------------------------------------------------------
(* Properties.                                                             *)

\* The script has ended or will never move again.
Terminal == {"done", "aborted", "hung"}

\* Up to now no provider has answered a request of this run: nothing was
\* imported, and the only request sent, if any, failed.
NoSourceAnswered ==
    /\ imported = NotImported
    /\ lastOp.requests <= 1
    /\ lastOp.requests = 1 => lastOp.providerError

\* The last line printed.
LastLine == IF out = <<>> THEN "" ELSE out[Len(out)]

\* The lines that report a failed fetch.
ErrorLines ==
    {"error_generating_dashboard", "zapper_connection_failed",
     "error_fetching_zapper", "error_fetching_market", "error_for_pool"}

\* The fetching operations main() and the scripts call.
FetchingOps ==
    {"get_supply_info", "get_aUSDC_situation", "get_defi_positions",
     "get_defi_summary", "get_market_by_id", "fetch_vault_data"}

\* C1: in one run of main(), a section whose fetch failed never keeps another
\* section from being fetched: once the run is over, every section other
\* than a failed one has been fetched.
C1_FailureIsolated ==
    (program = "main" /\ pc = "done") =>
        \A s \in marked : \A t \in SectionSet \ {s} : t \in fetched

\* C2: a completed cycle holds exactly one recorded outcome per configured
\* source: none is left without an outcome.
C2_OneOutcomePerSource ==
    (program = "main" /\ pc = "done") =>
        \A s \in SectionSet : results[s] # Unset

\* C3: no error met while querying a provider leaves the fetching function as
\* an exception; it comes back as a failure value.
C3_NoExceptionEscapes ==
    /\ \A k \in DOMAIN fetchLog :
          IsProviderError(fetchLog[k].resp) => fetchLog[k].kind # "raise"
    /\ (lastOp.op \in FetchingOps /\ lastOp.providerError) => lastOp.kind # "raise"

\* C4: whatever sources fail, the cycle ends with the report produced and
\* every section is either populated or explicitly marked as failed in it.
C4_FailedSectionsMarked ==
    (program = "main" /\ pc = "done") =>
        \A s \in SectionSet : s \in populated \/ s \in marked

\* C5: when no source at all is reachable the run still ends with a report,
\* every section of it marked failed; the program never aborts before that.
C5_AllDownStillReports ==
    (program = "main" /\ NoSourceAnswered /\ pc \in Terminal) =>
        /\ pc = "done"
        /\ \A s \in SectionSet : s \in marked /\ s \notin populated

\* C6: a GraphQL response with a non-200 status or with errors never hands
\* its data to the caller, for the portfolio client and for the
\* lending-market client.
C6_GraphQLErrorsFail ==
    \A k \in DOMAIN fetchLog :
        LET e == fetchLog[k] IN
        (/\ e.client \in {"zapper", "morpho"}
         /\ e.resp.net = "answer"
         /\ (e.resp.status # 200 \/ e.resp.errors)) => e.kind # "return"

\* C7: every provider fetch terminates: a provider that never answers makes
\* the call end with a failure after a fixed timeout.
C7_EveryFetchTerminates ==
    \A k \in DOMAIN fetchLog :
        fetchLog[k].resp.net = "silent" => fetchLog[k].kind \in {"raise", "false"}

\* C8: a cycle of main() never waits indefinitely on a single source.
C8_CycleNeverWaitsForever ==
    program = "main" => pc # "hung"

\* C9: a source whose first attempt fails with a transport error and whose
\* second attempt would succeed appears as successful.
C9_TransportErrorRetried ==
    (/\ program = "main"
     /\ \E k \in DOMAIN fetchLog :
           fetchLog[k].resp.net = "connerr" /\ fetchLog[k].resp.retryOk) =>
        LastLine \notin ErrorLines

\* C10: one call of get_defi_positions, get_defi_summary or get_market_by_id
\* sends exactly one request.
C10_OneRequestPerInvocation ==
    lastOp.op \in {"get_defi_positions", "get_defi_summary", "get_market_by_id"} =>
        lastOp.requests = 1

\* The lines printed since the current section began, as a set.
Printed == {out[k] : k \in DOMAIN out}

\* Both totalSupply() reads of the last step returned.
BothReadsOk == Len(reads) = 2 /\ reads[1].ok /\ reads[2].ok

\* get_supply_info read the lvlUSD supply and then missed the slvlUSD supply.
SlvlUSDReadMissing ==
    /\ lastOp.op = "get_supply_info"
    /\ Len(reads) = 2 /\ reads[1].ok /\ ~reads[2].ok

\* C11: the slvlUSD/lvlUSD percentage is computed only from two successful
\* supply reads and is then slvlUSD_supply / lvlUSD_supply * 100; when the
\* slvlUSD read is missing the percentage is absent (not reported, not zero)
\* and the lvlUSD supply that was read is still reported.
C11_PercentageNeedsBothSupplies ==
    lastOp.op = "get_supply_info" =>
        /\ "percentage" \in Printed =>
              /\ BothReadsOk
              /\ lastOp.value.percentage =
                    Percentage(reads[2].value, reads[1].value)
        /\ SlvlUSDReadMissing =>
              /\ "percentage" \notin Printed
              /\ "lvlUSD_supply" \in Printed

\* The lvlUSD total supply was read as 0 (and the slvlUSD supply was read).
ZeroSupplyRead == BothReadsOk /\ reads[1].value = 0

\* C12: when the lvlUSD total supply is read as 0 the percentage is absent and
\* no division is attempted (nothing is raised), both supply figures are
\* still reported and the run goes on to the other sections.
C12_ZeroSupplyGuarded ==
    /\ (lastOp.op = "get_supply_info" /\ ZeroSupplyRead) =>
          /\ lastOp.kind = "return"
          /\ "percentage" \notin Printed
          /\ {"lvlUSD_supply", "slvlUSD_supply"} \subseteq Printed
          /\ pc = "collateral_test"
    /\ (lastOp.op = "import_supply" /\ ZeroSupplyRead) => pc # "aborted"

\* The steps that read the aUSDC supply and the variable-debt supply.
AUSDCOps == {"get_aUSDC_situation", "import_aUSDC"}

\* C13: the aUSDC available liquidity, whenever it is reported, is the total
\* supply minus the total borrow read in the same step, and it is reported
\* exactly when both reads succeeded: with a failed read it is absent.
C13_LiquidityIsSupplyMinusBorrow ==
    lastOp.op \in AUSDCOps =>
        /\ BothReadsOk =>
              /\ lastOp.kind = "return"
              /\ "available_liquidity" \in Printed
              /\ lastOp.value.total_supply = Scaled(reads[1].value, 6)
              /\ lastOp.value.total_borrow = Scaled(reads[2].value, 6)
              /\ lastOp.value.available_liquidity =
                    Minus(lastOp.value.total_supply, lastOp.value.total_borrow)
        /\ ~BothReadsOk =>
              /\ lastOp.kind = "raise"
              /\ "available_liquidity" \notin Printed

\* get_aUSDC_situation reported a liquidity below the supply it read.
C13_Witness ==
    /\ lastOp.op = "get_aUSDC_situation"
    /\ BothReadsOk
    /\ reads[2].value > 0
    /\ "available_liquidity" \in Printed
    /\ lastOp.value.available_liquidity.raw = reads[1].value - reads[2].value

\* The Euler response was answered with an acceptable status and a body that
\* has no entry for the vault address, or an entry without the two fields.
VaultEntryMissing ==
    /\ lastOp.op = "fetch_vault_data"
    /\ fetchLog[1].resp.net = "answer"
    /\ ~RaiseForStatus(fetchLog[1].resp.status)
    /\ fetchLog[1].resp.data = NullEntity

\* C14: when the response has no entry for the vault, or the entry lacks
\* totalBorrowed or totalCash, fetch_vault_data gives no total-supplied and no
\* available-liquidity figure: it ends normally without computing them (from
\* a default of 0 or otherwise) and without printing them.
C14_MissingVaultEntryAbsent ==
    VaultEntryMissing =>
        /\ lastOp.kind = "return"
        /\ {"total_supply", "available_liquidity"} \cap DOMAIN lastOp.value = {}
        /\ {"total_supplied", "available_liquidity"} \cap Printed = {}

\* C15: the scaled value of an on-chain integer v of d decimals is v / 10^d
\* without loss: multiplied back by 10^d it is v again.
C15_ScalingRoundTrips ==
    (program = "scale" /\ pc = "scaled") =>
        FloatEqualsInt(FloatTimesPow10(lastOp.value, reads[1].decimals),
                       reads[1].value)

\* The decimals of the tokens whose amounts are read on-chain.
TokenDecimals == [lvlUSD |-> 18, slvlUSD |-> 18, USDC |-> 6]

\* The units that are a token's name; "loanAsset" is the symbol of a
\* market's loan asset.
TokenUnits == DOMAIN TokenDecimals \cup {"loanAsset"}

\* C16: every amount shown under a token's name is a raw integer divided by
\* 10^d, with d the token's own decimals: lvlUSD is scaled by 10^18 at every
\* site, USDC by 10^6, and no loan-asset amount of a market is shown without
\* such a scaling.
C16_AmountsScaledByOwnDecimals ==
    \A k \in DOMAIN shown :
        shown[k].unit \in TokenUnits =>
            /\ "decimals" \in DOMAIN shown[k].value
            /\ shown[k].unit \in DOMAIN TokenDecimals =>
                  shown[k].value.decimals = TokenDecimals[shown[k].unit]

\* The provider's field behind each rate and each USD figure of a market.
RateField ==
    ("Supply APY" :> "supplyApy") @@ ("Borrow APY" :> "borrowApy")
    @@ ("Utilization" :> "utilization")

UsdField ==
    ("Total Supply" :> "supplyAssetsUsd") @@ ("Total Borrow" :> "borrowAssetsUsd")
    @@ ("Available Liquidity" :> "liquidityAssetsUsd")
    @@ ("Total Supply USD" :> "supplyAssetsUsd")
    @@ ("Total Borrow USD" :> "borrowAssetsUsd")
    @@ ("Available Liquidity USD" :> "liquidityAssetsUsd")

\* The last step fetched a market and printed its figures.
MarketReported ==
    lastOp.op = "get_market_by_id" /\ lastOp.kind = "return" /\ LastLine = "market"

\* The values of the figures shown under a label, in print order.
ShownAs(label) ==
    LET fs == SelectSeq(shown, LAMBDA f : f.label = label)
    IN  [k \in DOMAIN fs |-> fs[k].value]

\* C17: for every market reported, supply APY, borrow APY and utilization are
\* the provider's fractions times 100, every supply APR shown is the fraction
\* of its reward times 100 (the sections of main() show one per reward), and
\* the USD figures of supply, borrow and liquidity are the provider's values
\* unchanged.
C17_RatesTimes100UsdUnchanged ==
    MarketReported =>
        LET snap == fetchLog[1].resp.data IN
        /\ \A l \in DOMAIN RateField :
              ShownAs(l) = <<Times100(Field(snap, RateField[l]))>>
        /\ Len(ShownAs("Supply APR")) <= Len(Rewards(snap))
        /\ \A k \in DOMAIN ShownAs("Supply APR") :
              ShownAs("Supply APR")[k] = Times100(Rewards(snap)[k])
        /\ program = "main" => Len(ShownAs("Supply APR")) = Len(Rewards(snap))
        /\ \A k \in DOMAIN shown :
              shown[k].unit = "USD" =>
                 /\ shown[k].label \in DOMAIN UsdField
                 /\ shown[k].value = Field(snap, UsdField[shown[k].label])
        /\ Cardinality({k \in DOMAIN shown : shown[k].unit = "USD"}) = 3

\* A market with a reward was reported by one of the lending sections of
\* main().
C17_Witness ==
    /\ program = "main"
    /\ MarketReported
    /\ ShownAs("Supply APR") # <<>>
    /\ ShownAs("Supply APY") = <<Times100(Field(fetchLog[1].resp.data, "supplyApy"))>>

\* The step sends a request to a provider.
FetchStep == fetchLog' # <<>> \/ reads' # <<>>

\* C18: a cycle of main() goes through fetching, normalizing, assembling and
\* done in that order and enters none of them twice: once figures have been
\* scaled and printed no step fetches any more, and nothing follows done.
C18_PhasesInOrder ==
    [][/\ pc # "done"
       /\ (program = "main" /\ populated # {}) => ~FetchStep]_vars

\* C19: the fetches of a cycle of main() are dispatched together: when the
\* fetch of one source has reached its outcome, or is still in flight, the
\* fetch of every other source has been dispatched as well.
C19_FetchesDispatchedTogether ==
    (program = "main" /\ fetched # {}) => fetched = SectionSet

\* The loop over the three stakehouse markets has just ended, in main() or
\* in get_specific_markets_info.
StakehouseLoopEnded ==
    /\ lastOp.op = "get_market_by_id" /\ lastOp.kind # "hang"
    /\ \/ program = "main" /\ pc = "curve"
       \/ program = "morpho" /\ pc = "info_lvlusd"
    /\ Len(out) = 1 + stakehouse_markets

\* The markets of the loop, by position, whose line in the output is `line`.
MarketsWith(line) == {k \in 1..(Len(out) - 1) : out[k + 1] = line}

\* The markets of the loop whose name is in the output.
MarketsNamed == UNION {MarketsWith(line) : line \in MarketNameLines}

\* C20: when one of the three stakehouse markets fails to fetch and the other
\* two are fetched, the output holds the two fetched markets, the section has
\* figures, the function has returned, and the failed market is named nowhere
\* in the output.
C20_FailedMarketLeftOut ==
    (/\ StakehouseLoopEnded
     /\ Cardinality(MarketsWith("error_fetching_market")) = 1
     /\ Cardinality(MarketsWith("market")) = 2) =>
        /\ populated \cap {"stakehouse", "info_stakehouse"} # {}
        /\ MarketsWith("error_fetching_market") \cap MarketsNamed = {}

\* The sections that report several entities: the two Curve pools and the
\* markets of the three lending families.
EntitySections == {"curve", "stakehouse", "lvl_pendle", "slvl_pendle"}

\* C21: the result of a section of several entities is successful if and only
\* if at least one of its entities was actually read: with both pool reads
\* failed, or every market of a family failed, the section's result is a
\* failure, and with one entity read it is a success.
C21_SectionOkIffEntityRead ==
    \A s \in EntitySections :
        (program = "main" /\ results[s] # Unset) =>
            (results[s] = ReturnedDict <=> s \in populated)

\* C26: the summary get_defi_summary returns is one snapshot: its
\* total_value_usd and the positions it counts and groups come from the same
\* provider response.
C26_SummaryIsOneSnapshot ==
    (lastOp.op = "get_defi_summary" /\ lastOp.kind = "return") =>
        lastOp.value.total_value_usd = lastOp.value.positions

\* The last step sent a portfolio query to Zapper.
ZapperQueried == \E k \in DOMAIN fetchLog : fetchLog[k].client = "zapper"

\* The last step was the connection test and the provider's answer was a 200
\* without an errors member.
ConnectionAccepted ==
    /\ lastOp.op = "test_api_connection"
    /\ fetchLog[1].resp.net = "answer"
    /\ fetchLog[1].resp.status = 200
    /\ ~fetchLog[1].resp.errors

\* The last step was the connection test and it failed.
ConnectionRefused == lastOp.op = "test_api_connection" /\ ~ConnectionAccepted

\* The last step was a portfolio call that raised.
PortfolioRaised ==
    lastOp.op \in {"get_defi_positions", "get_defi_summary"} /\ lastOp.kind = "raise"

\* C27: get_collateral_composition queries the portfolio only after
\* test_api_connection returned true; when the test fails, or a later
\* portfolio call raises, it returns None without raising and main() goes on
\* with the next section.
C27_PortfolioGatedByConnectionTest ==
    [][/\ ZapperQueried' =>
             \/ pc = "collateral_positions" /\ ConnectionAccepted
             \/ /\ pc = "collateral_summary"
                /\ lastOp.op = "get_defi_positions" /\ lastOp.kind = "return"
       /\ (ConnectionRefused' \/ PortfolioRaised') =>
             /\ results'["collateral"] = ReturnedNone
             /\ pc' = "aUSDC"]_vars

\* get_defi_summary raised after the test and get_defi_positions had passed,
\* and main() is at the aUSDC section with None for the collateral.
C27_Witness ==
    /\ lastOp.op = "get_defi_summary" /\ lastOp.kind = "raise"
    /\ results["collateral"] = ReturnedNone
    /\ pc = "aUSDC"

\* The number of markets of the loop at each position of a script.
MarketsOf ==
    ("stakehouse" :> stakehouse_markets) @@ ("lvl_pendle" :> lvlusd_markets)
    @@ ("slvl_pendle" :> slvlusd_markets)
    @@ ("info_stakehouse" :> stakehouse_markets)
    @@ ("info_lvlusd" :> lvlusd_markets) @@ ("info_slvlusd" :> slvlusd_markets)

\* The last step asked for a market and the provider answered successfully
\* with marketByUniqueKey null.
NullMarketAnswered ==
    /\ lastOp.op = "get_market_by_id"
    /\ fetchLog[1].resp.net = "answer"
    /\ ~RaiseForStatus(fetchLog[1].resp.status)
    /\ ~fetchLog[1].resp.errors
    /\ fetchLog[1].resp.data = NullEntity

\* C29: when the provider answers successfully with a null market, the market
\* is reported as not found, nothing is raised, no figure is shown for it, and
\* the loop goes on to the next market of its list.
C29_NullMarketNotFound ==
    [][NullMarketAnswered' =>
          /\ lastOp'.kind = "return"
          /\ LastLine' = "market_not_found"
          /\ shown' = <<>>
          /\ pc' \notin {"aborted", "hung"}
          /\ (pc \in DOMAIN MarketsOf /\ idx < MarketsOf[pc]) =>
                (pc' = pc /\ idx' = idx + 1)]_vars

\* A section of main() reported a market as not found and then printed the
\* figures of the next market of its list.
C29_Witness ==
    /\ program = "main"
    /\ \E k \in 1..(Len(out) - 1) :
          out[k] = "market_not_found" /\ out[k + 1] = "market"
    /\ shown # <<>>

\* The supply figures and the aUSDC figures that follow from the
\* totalSupply() reads of the last step.
FreshSupplyFigures ==
    SupplyFigures([lvlUSD_supply |-> Scaled(reads[1].value, 18),
                   slvlUSD_supply |-> Scaled(reads[2].value, 18),
                   percentage |-> Percentage(reads[2].value, reads[1].value)])

FreshAUSDCFigures ==
    AUSDCFigures([total_supply |-> Scaled(reads[1].value, 6),
                  total_borrow |-> Scaled(reads[2].value, 6),
                  available_liquidity |->
                     Minus(Scaled(reads[1].value, 6), Scaled(reads[2].value, 6))])

Orders(seq) ==
    {[k \in DOMAIN seq |-> seq[f[k]]] : f \in Permutations(DOMAIN seq)}

\* The provider's data with the position edges of every app in another order.
Reordered(portfolio_data) ==
    LET apps == portfolio_data.edges
        choices == UNION {Orders(apps[k].edges) : k \in DOMAIN apps}
    IN  {[portfolio_data EXCEPT
             !.edges = [k \in DOMAIN apps |-> [apps[k] EXCEPT !.edges = f[k]]]] :
            f \in {g \in [DOMAIN apps -> choices] :
                      \A k \in DOMAIN apps : g[k] \in Orders(apps[k].edges)}}

\* The elements of a list with the number of times each is in it.
Multiset(seq) ==
    [x \in {seq[k] : k \in DOMAIN seq} |->
        Cardinality({k \in DOMAIN seq : seq[k] = x})]

\* C22: aggregation does not depend on the order of the position edges: for
\* every permutation of them get_defi_summary gives the same app_summary
\* (count and total per app and network), meta_type_summary, position_count
\* and unique_apps, and get_defi_positions the same multiset of positions.
C22_AggregationOrderIndependent ==
    (program = "portfolio" /\ lastOp.op = "get_defi_summary") =>
        \A d \in Reordered(PortfolioAnswer) :
            LET ps == defi_positions_from(d, 1)
                summary == summary_of(d, ps)
            IN  /\ summary.app_summary = lastOp.value.app_summary
                /\ summary.meta_type_summary = lastOp.value.meta_type_summary
                /\ summary.position_count = lastOp.value.position_count
                /\ summary.unique_apps = lastOp.value.unique_apps
                /\ Multiset(ps) = Multiset(defi_positions_from(PortfolioAnswer, 1))

\* C23: the data assembled is not modified by rendering it: print_defi_report
\* leaves the positions list as it was, order included, and
\* print_claimable_report leaves both lists as they were.
C23_ReportsLeaveListsUnchanged ==
    [][/\ pc = "defi_report" => positions' = positions
       /\ pc = "claimable_report" =>
             positions' = positions /\ claimable' = claimable]_vars

\* The contract positions among the provider's position nodes, each with the
\* app it is under.
ContractNodes ==
    LET apps == PortfolioAnswer.edges
        all == UNION {{<<apps[a], apps[a].edges[k]>> : k \in DOMAIN apps[a].edges} :
                         a \in DOMAIN apps}
    IN  {an \in all : an[2].type = "contract-position"}

\* A token without metaType: the key is missing or its value is null.
WithoutMetaType(token_info) == token_info.metaType \in {Absent, PyNone}

\* C28: a contract position with tokens yields one position per distinct
\* metaType, the tokens without metaType under 'UNKNOWN'; every token is in
\* exactly one of them; their balance_usd sums to the sum of the tokens'
\* balanceUSD.  A contract position without tokens yields one position with
\* the node's own balanceUSD.
C28_ContractPositionGrouped ==
    (program = "portfolio" /\ lastOp.op = "get_defi_positions") =>
        \A an \in ContractNodes :
            LET node == an[2]
                tokens == node.tokens
                ps == node_positions(an[1], node)
                metas == {IF WithoutMetaType(tokens[k]) THEN "UNKNOWN"
                          ELSE tokens[k].metaType : k \in DOMAIN tokens}
            IN  IF tokens = <<>>
                THEN Len(ps) = 1 /\ ps[1].balance_usd = node.balanceUSD
                ELSE /\ Len(ps) = Cardinality(metas)
                     /\ {ps[g].meta_type : g \in DOMAIN ps} = metas
                     /\ \A k \in DOMAIN tokens :
                           Cardinality({g \in DOMAIN ps :
                               \E j \in DOMAIN ps[g].underlying_tokens :
                                   ps[g].underlying_tokens[j] = tokens[k]}) = 1
                     /\ FloatSum([g \in DOMAIN ps |-> ps[g].balance_usd])
                           = FloatSum([k \in DOMAIN tokens |-> tokens[k].balanceUSD])
                     /\ \A g \in DOMAIN ps : ps[g] \in {positions[k] : k \in DOMAIN positions}

\* The allocations of the vault that hold assets, as the provider gave them.
HeldAllocations ==
    SelectSeq(fetchLog[1].data.vaultByAddress.allocation,
              LAMBDA a : a.supplyAssets > 0)

\* C30: get_vault_allocation_summary returns {} when the vault is not found;
\* otherwise it returns a result, also for a totalAssetsUsd of 0: its
\* allocations are exactly the allocations with supplyAssets > 0, in
\* descending order of allocation_percentage, total_allocated_usd is the sum
\* of their supply_assets_usd and utilization_percentage is the sum of their
\* allocation_percentage.
C30_VaultSummaryTotals ==
    (program = "vault" /\ pc # "fetched") =>
        IF "null" \in DOMAIN fetchLog[1].data.vaultByAddress
        THEN lastOp.kind = "return" /\ DOMAIN lastOp.value = {}
        ELSE /\ lastOp.kind = "return"
             /\ LET as == lastOp.value.allocations IN
                /\ Multiset([k \in DOMAIN as |->
                       [supplyAssets |-> as[k].supply_assets,
                        supplyAssetsUsd |-> as[k].supply_assets_usd]])
                      = Multiset(HeldAllocations)
                /\ \A i, j \in DOMAIN as :
                      i < j => ~FloatLess(as[i].allocation_percentage,
                                          as[j].allocation_percentage)
                /\ lastOp.value.total_allocated_usd
                      = FloatSum([k \in DOMAIN as |-> as[k].supply_assets_usd])
                /\ lastOp.value.utilization_percentage
                      = FloatSum([k \in DOMAIN as |-> as[k].allocation_percentage])

\* C25: two cycles that run at the same time share no buffer: under every
\* interleaving, the text capture_print_output returns to a cycle holds only
\* lines printed by that cycle's own fetch.
C25_CaptureHoldsOwnOutputOnly ==
    program = "dashboard" =>
        \A c \in Cycles :
            threads[c].pc = "returned" =>
                \A k \in DOMAIN threads[c].captured : threads[c].captured[k] = c

====
